---- MODULE Spec2Model ----
(***************************************************************************)
(* NavidroFM (src/app.py): one run of main() syncing recommendation feeds  *)
(* into playlists of a Subsonic-style media server.                        *)
(*                                                                         *)
(* Strings are sequences of one-character strings (<<"a","b">> is "ab"),   *)
(* so that keys built by concatenation are computed, not assumed.          *)
(* External services (feed, catalog, downloader, media server) answer      *)
(* nondeterministically: a transport error, a non-ok envelope, or a        *)
(* payload computed from the modelled server state.                        *)
(***************************************************************************)
EXTENDS Integers, Sequences, FiniteSets, TLC

\* ------------------------------------------------------------------ bounds
MaxT == 2           \* largest configured track count (*_TRACKS)
MaxResp == 2        \* longest Last.fm station response
MaxResults == 2     \* longest catalog result list
MaxAlbum == 3       \* longest album track listing

\* ------------------------------------------------------- program constants
backup_multiplier == 3
max_attempts == 20
LBMaxTracks == 50

None == "None"
NoArg == "NoArg"
\* the exit status of a process that has not ended
NoStatus == -1
\* "no song id" and "no playlist id" (Python's None) as values of the same
\* shape as a song id and a playlist id
NoSong == [dir |-> None, artist |-> <<>>, title |-> <<>>]
NoId == [name |-> None, k |-> 0]
\* no pass of the reconciliation loop yet
NoAttempt == [outcome |-> None, in_library |-> FALSE, id |-> NoSong,
              searched |-> FALSE, downloaded |-> FALSE]
\* search_ytmusic_track returning None
NoInfo == [artist |-> <<>>, title |-> <<>>, found |-> FALSE]

\* ------------------------------------------------------------- input data
\* Feed entries {name, artists:[{name}]}: four tracks, TrackA once more with
\* its artist in upper case, and one entry with an empty artist name.
TrackA == [artist |-> <<"a">>, name |-> <<"x">>]
TrackB == [artist |-> <<"b">>, name |-> <<"y">>]
TrackC == [artist |-> <<"x">>, name |-> <<"a">>]
TrackD == [artist |-> <<"c">>, name |-> <<"z">>]
TrackE == [artist |-> <<"A">>, name |-> <<"x">>]
Blank == [artist |-> <<>>, name |-> <<"x">>]
AllEntries == {TrackA, TrackB, TrackC, TrackD, TrackE, Blank}
\* the station content in the whole-run specification
SyncFeed == {TrackA, TrackB, Blank}

SeqsUpTo(S, n) == UNION {[1..k -> S] : k \in 0..n}

\* the ListenBrainz playlists considered: any list of feed entries, repeats
\* included, no longer than the feed has entries
LBPlaylists(entries) == SeqsUpTo(entries, Cardinality(entries))

Min(a, b) == IF a < b THEN a ELSE b
Max(a, b) == IF a > b THEN a ELSE b

\* self.playlists / self.listenbrainz_playlists
LastfmKeys == {"recommended", "mix", "library"}
LBKeys == {"exploration", "jams"}
PlaylistKeys == LastfmKeys \cup LBKeys
AllOrder == <<"recommended", "mix", "library", "exploration", "jams">>
Args == PlaylistKeys \cup {"all", "bogus", NoArg}
\* the configurations considered: at most one playlist is enabled, one of
\* each kind (a Last.fm station with a directory, the library station, a
\* ListenBrainz playlist)
EnabledSets == {{}, {"recommended"}, {"library"}, {"exploration"}}

\* config['name']; the server's playlist id is modelled by the name it was
\* created under.
PlaylistName(k) ==
    CASE k = "recommended" -> "Discover Recommended"
      [] k = "mix" -> "Recommended Mix"
      [] k = "library" -> "Library Mix"
      [] k = "exploration" -> "Weekly Exploration"
      [] k = "jams" -> "Weekly Jams"
ManagedNames == {PlaylistName(k) : k \in PlaylistKeys}

\* config['dir']: None for 'library', music_dir / key otherwise
PlaylistDir(k) == IF k = "library" THEN None ELSE k

Runs == {"self", "other"}

\* the three ways a media-server request ends: an exception (transport or
\* HTTP error), a JSON envelope whose status is not ok (no payload), or an
\* ok envelope with its payload
ReqOutcomes == {"error", "failed", "ok"}

\* A library song: a file under a directory ("lib" is the user's own
\* collection, a playlist key the directory of that playlist), with the
\* artist and title of its tags. The server's song id is modelled by the
\* song itself.
Song(d, a, t) == [dir |-> d, artist |-> a, title |-> t]
InitSongs == {Song("lib", TrackA.artist, TrackA.name),
              Song("lib", TrackC.artist, TrackC.name),
              Song("recommended", TrackB.artist, TrackB.name)}
PlaylistDirs == PlaylistKeys \ {"library"}

VARIABLES
    \* configuration (environment variables, argv)
    argv, enabled, num_tracks, lb_user,
    \* the process: position in main(), exit status, playlists still to sync
    pc, exit_code, lock_fd, queue, ptype,
    \* the host and the external services
    lock, feed, dirs, files, index, playlists, scanning,
    \* fetch_lastfm_tracks locals
    all_tracks, seen_ids, attempts,
    \* sync_playlist locals
    tracks, playlist_id, song_ids, success_count, track_index,
    downloaded_tracks,
    \* scan_and_get_songs_from_directory locals (its song_ids is found_ids)
    found_ids, not_found_tracks, scan_i,
    \* scan_time of the poll loop, kept modulo ScanTimeCycle
    scan_time,
    \* history: what the latest pass of the reconciliation loop did, whether
    \* the latest status poll was an ok response of an idle server, and the
    \* number of resolution searches of this library-consistency step
    last_attempt, quiescent_seen, n_searches,
    \* history: how the latest sync_playlist call returned ("none" while a
    \* call runs and before the first one)
    returned,
    \* history: how the latest station query of fetch_lastfm_tracks ended
    \* ("none" outside a fetch and before the first query)
    last_query,
    \* history of a publish sequence: the outcomes of its media-server
    \* requests, in order
    replies,
    \* search_ytmusic_track: its arguments, the catalog's result list, the
    \* position of the for loop, best_match (a position in results, 0 for
    \* None), best_score and the value returned
    q_artist, q_title, results, result_i, best_match, best_score, match,
    \* search_ytmusic_track, enrichment: video_id of the best match, how the
    \* album lookup ended ("none" before it), the album's track listing and
    \* track_number
    video_id, album_lookup, album_tracks, track_number,
    \* history: the seconds slept at the end of the latest pass of the
    \* reconciliation loop (0 before the first pass)
    slept

cfgVars == <<argv, enabled, num_tracks, lb_user>>
procVars == <<pc, exit_code, lock_fd, queue, ptype>>
worldVars == <<lock, feed, dirs, files, index, playlists, scanning>>
fetchVars == <<all_tracks, seen_ids, attempts>>
syncVars == <<tracks, playlist_id, song_ids, success_count, track_index,
              downloaded_tracks>>
scanVars == <<found_ids, not_found_tracks, scan_i>>
histVars == <<last_attempt, quiescent_seen, n_searches>>
pubVars == <<replies>>
pollVars == <<scan_time>>
retVars == <<returned, last_query>>
matchVars == <<q_artist, q_title, results, result_i, best_match, best_score,
               match>>
enrichVars == <<video_id, album_lookup, album_tracks, track_number>>
sleepVars == <<slept>>
vars == <<cfgVars, procVars, worldVars, fetchVars, syncVars, scanVars,
          histVars, pubVars, matchVars, pollVars, retVars, enrichVars,
          sleepVars>>

\* ----------------------------------------------------------------- locking
\* a lock that is granted whoever holds it
acquire_lock_Shared(holders, r, open_ok) ==
    IF open_ok
    THEN [fd |-> r, holders |-> holders \cup {r}]
    ELSE [fd |-> None, holders |-> holders]

\* open(LOCK_FILE) then flock(LOCK_EX | LOCK_NB): the descriptor, or None
\* when the open fails or another open file description holds the lock.
acquire_lock(holders, r, open_ok) ==
    IF open_ok /\ holders = {}
    THEN [fd |-> r, holders |-> {r}]
    ELSE [fd |-> None, holders |-> holders]

\* a release that leaves the lock with its holder
release_lock_Kept(holders, fd) == holders

\* flock(LOCK_UN) and close of the descriptor; nothing without a descriptor
release_lock(holders, fd) ==
    IF fd # None THEN holders \ {fd} ELSE holders

\* ------------------------------------------------------------ configuration
\* get_playlist_config: the ListenBrainz table is empty without LZ_USERNAME
get_playlist_config(k) ==
    IF k \in LastfmKeys THEN k
    ELSE IF lb_user /\ k \in LBKeys THEN k
    ELSE None

\* config['tracks']
ConfigTracks(k) ==
    IF k \in LBKeys THEN Min(num_tracks, LBMaxTracks) ELSE num_tracks

\* ------------------------------------------------------------------ fetch
\* track_id = f"{artist_name}:{track_name}"
TrackId(t) == t.artist \o <<":">> \o t.name

\* the for loop over one response, from position i on; acc is
\* [all |-> all_tracks, seen |-> seen_ids, new |-> new_tracks]
RECURSIVE AddTracks(_, _, _, _)
AddTracks(resp, i, acc, fetch_count) ==
    IF i > Len(resp) THEN acc
    ELSE LET t == resp[i]
             fresh == TrackId(t) \notin acc.seen /\ t.name # <<>>
                      /\ t.artist # <<>>
             acc2 == IF fresh
                     THEN [all |-> Append(acc.all, t),
                           seen |-> acc.seen \cup {TrackId(t)},
                           new |-> acc.new + 1]
                     ELSE acc
         IN  IF fresh /\ Len(acc2.all) >= fetch_count THEN acc2
             ELSE AddTracks(resp, i + 1, acc2, fetch_count)

\* A function's locals end with its call: they are put back to their
\* initial values when fetch_lastfm_tracks, scan_and_get_songs_from_directory
\* and sync_playlist return.
FetchReturn == all_tracks' = <<>> /\ seen_ids' = {} /\ attempts' = 0

ScanLocalsEnd ==
    /\ found_ids' = <<>> /\ not_found_tracks' = <<>> /\ scan_i' = 0
    /\ quiescent_seen' = FALSE /\ n_searches' = 0

SyncReturn ==
    /\ pc' = "next"
    /\ tracks' = <<>> /\ playlist_id' = NoId /\ song_ids' = <<>>
    /\ success_count' = 0 /\ track_index' = 0 /\ downloaded_tracks' = <<>>
    /\ last_attempt' = NoAttempt

\* a sync that goes on to the playlist lookup without candidates
AfterFetch_Always(ts) ==
    /\ pc' = "get_playlist"
    /\ tracks' = ts
    /\ UNCHANGED <<playlist_id, song_ids, success_count, track_index,
                   downloaded_tracks, last_attempt>>
    /\ FetchReturn

\* sync_playlist, lines 870-874: "if not tracks: return", else on to the
\* playlist lookup with the fetched candidates
AfterFetch(ts) ==
    /\ IF ts = <<>>
       THEN SyncReturn
       ELSE /\ pc' = "get_playlist"
            /\ tracks' = ts
            /\ UNCHANGED <<playlist_id, song_ids, success_count, track_index,
                           downloaded_tracks, last_attempt>>
    /\ FetchReturn

\* the locals of the functions before their first call
LocalsInit ==
    /\ all_tracks = <<>> /\ seen_ids = {} /\ attempts = 0
    /\ tracks = <<>> /\ playlist_id = NoId /\ song_ids = <<>>
    /\ success_count = 0 /\ track_index = 0 /\ downloaded_tracks = <<>>
    /\ found_ids = <<>> /\ not_found_tracks = <<>> /\ scan_i = 0
    /\ last_attempt = NoAttempt /\ quiescent_seen = FALSE /\ n_searches = 0
    /\ replies = <<>> /\ scan_time = 0 /\ returned = "none"
    /\ last_query = "none" /\ slept = 0

\* the enrichment of search_ytmusic_track before it runs (line 420:
\* "track_number = 1")
EnrichInit ==
    /\ video_id = None /\ album_lookup = "none" /\ album_tracks = <<>>
    /\ track_number = 1

\* search_ytmusic_track before its first call
MatchInit ==
    /\ q_artist = <<>> /\ q_title = <<>> /\ results = <<>>
    /\ result_i = 0 /\ best_match = 0 /\ best_score = 0 /\ match = NoInfo
    /\ EnrichInit

\* the library, its index and the managed playlists before a run
WorldInit ==
    /\ files \in SUBSET InitSongs
    /\ index = files
    /\ dirs = {f.dir : f \in files} \ {"lib"}
    /\ \E old \in {<<>>} \cup {<<<<s>>>> : s \in files} :
         playlists = [n \in ManagedNames |-> old]
    /\ scanning = None

Init ==
    /\ argv \in Args
    /\ enabled \in EnabledSets
    /\ num_tracks \in 0..MaxT
    /\ lb_user \in BOOLEAN
    /\ pc = "main" /\ exit_code = NoStatus /\ lock_fd = None
    /\ queue = <<>> /\ ptype = None
    /\ lock \in {{}, {"other"}}
    /\ feed = SyncFeed
    /\ WorldInit
    /\ LocalsInit
    /\ MatchInit

\* ------------------------------------------------------------------- main
\* a run that reports the lock refusal as a failure
ExitStatus_RefusalFails(why) ==
    IF why \in {"usage", "exception", "locked"} THEN 1 ELSE 0

\* the process status of main(): sys.exit(1) on the usage error (line 1018)
\* and in the exception handler (line 1048), sys.exit(0) when the lock is
\* not acquired (line 1024), 0 when main() returns
ExitStatus(why) ==
    IF why \in {"usage", "exception"} THEN 1 ELSE 0

\* main(): usage check, then the non-blocking lock; sys.exit(0) when it is
\* not acquired.
MainStart ==
    /\ pc = "main"
    /\ IF argv = NoArg
       THEN /\ pc' = "exit" /\ exit_code' = ExitStatus("usage")
            /\ UNCHANGED <<lock, lock_fd>>
       ELSE \E open_ok \in BOOLEAN :
              LET got == acquire_lock(lock, "self", open_ok)
              IN  /\ lock' = got.holders
                  /\ lock_fd' = got.fd
                  /\ IF got.fd = None
                     THEN pc' = "exit" /\ exit_code' = ExitStatus("locked")
                     ELSE pc' = "init" /\ exit_code' = exit_code
    /\ UNCHANGED <<queue, ptype, feed, dirs, files, index, playlists, scanning>>
    /\ UNCHANGED <<pubVars, matchVars, enrichVars, sleepVars, pollVars, retVars>>
    /\ UNCHANGED <<cfgVars, fetchVars, syncVars, scanVars, histVars>>

\* NavidroFM.__init__: required configuration, the ping handshake, the
\* catalog client. Any failure raises; main() logs, exits 1, and the finally
\* clause releases the lock.
SetupOutcomes == {"ok", "no_lastfm_user", "no_navidrome_config",
                  "ping_error", "auth_failed", "ytmusic_error"}

MainSetup ==
    /\ pc = "init"
    /\ \E outcome \in SetupOutcomes :
         IF outcome = "ok"
         THEN /\ pc' = "next"
              /\ queue' = IF argv = "all" THEN AllOrder ELSE <<argv>>
              /\ UNCHANGED <<exit_code, lock, lock_fd>>
         ELSE /\ pc' = "exit" /\ exit_code' = ExitStatus("exception")
              /\ lock' = release_lock(lock, lock_fd)
              /\ lock_fd' = None
              /\ queue' = queue
    /\ UNCHANGED <<ptype, feed, dirs, files, index, playlists, scanning>>
    /\ UNCHANGED <<pubVars, matchVars, enrichVars, sleepVars, pollVars, retVars>>
    /\ UNCHANGED <<cfgVars, fetchVars, syncVars, scanVars, histVars>>

\* main(): the next sync_playlist call, or the end of the try block: the
\* finally clause releases the lock and the process ends with status 0.
MainNext ==
    /\ pc = "next"
    /\ IF queue = <<>>
       THEN /\ pc' = "exit" /\ exit_code' = ExitStatus("completed")
            /\ lock' = release_lock(lock, lock_fd)
            /\ lock_fd' = None
            /\ UNCHANGED <<queue, ptype>>
       ELSE /\ pc' = "config"
            /\ ptype' = Head(queue)
            /\ queue' = Tail(queue)
            /\ UNCHANGED <<exit_code, lock, lock_fd>>
    /\ UNCHANGED <<feed, dirs, files, index, playlists, scanning>>
    /\ returned' = IF pc' = "config" THEN "none" ELSE returned
    /\ last_query' = "none"
    /\ UNCHANGED <<pubVars, matchVars, enrichVars, sleepVars, pollVars>>
    /\ UNCHANGED <<cfgVars, fetchVars, syncVars, scanVars, histVars>>

\* another run on the host takes or drops the lock
OtherRun ==
    /\ \/ /\ "other" \notin lock
          /\ \E open_ok \in BOOLEAN :
               LET got == acquire_lock(lock, "other", open_ok)
               IN  got.fd # None /\ lock' = got.holders
       \/ /\ "other" \in lock
          /\ lock' = release_lock(lock, "other")
    /\ UNCHANGED <<feed, dirs, files, index, playlists, scanning>>
    /\ UNCHANGED <<pubVars, matchVars, enrichVars, sleepVars, pollVars, retVars>>
    /\ UNCHANGED <<cfgVars, procVars, fetchVars, syncVars, scanVars, histVars>>

\* ---------------------------------------------------------- sync_playlist
\* sync_playlist, lines 856-870: unknown or disabled playlists return; the
\* others start fetching (fetch_tracks_for_playlist dispatches on the table
\* the key belongs to).
SyncConfig ==
    /\ pc = "config"
    /\ IF get_playlist_config(ptype) = None \/ ptype \notin enabled
       THEN pc' = "next"
       ELSE pc' = IF ptype \in LastfmKeys THEN "fetch_lastfm"
                  ELSE "fetch_lb_id"
    /\ UNCHANGED <<exit_code, lock_fd, queue, ptype>>
    /\ returned' = IF pc' = "next" THEN "skipped" ELSE returned
    /\ UNCHANGED <<pubVars, matchVars, enrichVars, sleepVars, pollVars, last_query>>
    /\ UNCHANGED <<cfgVars, worldVars, fetchVars, syncVars, scanVars,
                   histVars>>

\* a break that loses what the earlier queries collected
FetchBreak_Empty(ts) == AfterFetch(<<>>)

\* lines 302-304 and 332-337: the break out of the while loop on a failed
\* request or an empty response, then "return all_tracks"
FetchBreak(ts) == AfterFetch(ts)

\* how a station query ended: the request raised, the response was empty,
\* it brought nothing new, or it brought new candidates
QueryResult(ok, resp, new) ==
    IF ~ok THEN "error"
    ELSE IF resp = <<>> THEN "empty"
    ELSE IF new = 0 THEN "stale"
    ELSE "new"

\* a fetch loop without the limit on the number of queries
FetchCondition_NoLimit(fetch_count) == Len(all_tracks) < fetch_count

\* line 294: "while len(all_tracks) < fetch_count and attempts < max_attempts"
FetchCondition(fetch_count) ==
    Len(all_tracks) < fetch_count /\ attempts < max_attempts

\* a station with more tracks than the loop has queries
StationTrack(k) == [artist |-> <<"s">>, name |-> <<ToString(k)>>]
StationFeed == {StationTrack(k) : k \in 1..(max_attempts + 1)}

\* data.get('playlist', []) of a station query: any list of at most MaxResp
\* feed entries; the long station answers with nothing, with its next track
\* or with its first track again
FeedResponses ==
    IF feed = StationFeed
    THEN {<<>>, <<StationTrack(attempts + 1)>>, <<StationTrack(1)>>}
    ELSE SeqsUpTo(feed, MaxResp)

\* fetch_lastfm_tracks: one pass of the while loop (one station query)
FetchLastfmQuery ==
    /\ pc = "fetch_lastfm"
    /\ LET fetch_count == ConfigTracks(ptype) * backup_multiplier
       IN  /\ FetchCondition(fetch_count)
           /\ \E ok \in BOOLEAN, resp \in FeedResponses :
                LET acc == AddTracks(resp, 1,
                              [all |-> all_tracks, seen |-> seen_ids,
                               new |-> 0], fetch_count)
                IN  /\ last_query' = QueryResult(ok, resp, acc.new)
                    /\ IF ~ok \/ resp = <<>>
                       THEN \* the except clause, or "No more tracks
                            \* available from API"
                            FetchBreak(all_tracks)
                       ELSE IF acc.new = 0
                       THEN \* "API is repeating tracks, stopping"
                            AfterFetch(acc.all)
                       ELSE /\ all_tracks' = acc.all
                            /\ seen_ids' = acc.seen
                            /\ attempts' = attempts + 1
                            /\ UNCHANGED <<pc, syncVars, last_attempt>>
    /\ UNCHANGED <<exit_code, lock_fd, queue, ptype>>
    /\ returned' = IF pc' = "next" THEN "no_tracks" ELSE returned
    /\ UNCHANGED <<pubVars, matchVars, enrichVars, sleepVars, pollVars>>
    /\ UNCHANGED <<cfgVars, worldVars, scanVars, quiescent_seen, n_searches>>

\* fetch_lastfm_tracks: the while condition fails, return all_tracks
FetchLastfmDone ==
    /\ pc = "fetch_lastfm"
    /\ LET fetch_count == ConfigTracks(ptype) * backup_multiplier
       IN  ~FetchCondition(fetch_count)
    /\ AfterFetch(all_tracks)
    /\ UNCHANGED <<exit_code, lock_fd, queue, ptype>>
    /\ returned' = IF pc' = "next" THEN "no_tracks" ELSE returned
    /\ UNCHANGED <<pubVars, matchVars, enrichVars, sleepVars, pollVars, last_query>>
    /\ UNCHANGED <<cfgVars, worldVars, scanVars, quiescent_seen, n_searches>>

\* fetch_listenbrainz_tracks: keep every entry with a title and a creator
RECURSIVE ConvertLB(_)
ConvertLB(ts) ==
    IF ts = <<>> THEN <<>>
    ELSE LET t == Head(ts)
         IN  IF t.name = <<>> \/ t.artist = <<>>
             THEN ConvertLB(Tail(ts))
             ELSE <<t>> \o ConvertLB(Tail(ts))

\* the response to GET playlist/<id> (ok is FALSE for a transport or HTTP
\* error); num_tracks is not read
fetch_listenbrainz_tracks(ok, resp, n) ==
    IF ~ok \/ resp = <<>> THEN <<>> ELSE ConvertLB(resp)

\* fetch_tracks_for_playlist, ListenBrainz branch: the playlist id of the
\* current week (None: not found or request failed), then its tracks
FetchListenbrainz ==
    /\ pc = "fetch_lb_id"
    /\ \E found \in BOOLEAN :
         IF ~found
         THEN AfterFetch(<<>>)
         ELSE \E ok \in BOOLEAN, resp \in LBPlaylists(feed) :
                AfterFetch(fetch_listenbrainz_tracks(ok, resp,
                                                     ConfigTracks(ptype)))
    /\ UNCHANGED <<exit_code, lock_fd, queue, ptype>>
    /\ returned' = IF pc' = "next" THEN "no_tracks" ELSE returned
    /\ UNCHANGED <<pubVars, matchVars, enrichVars, sleepVars, pollVars, last_query>>
    /\ UNCHANGED <<cfgVars, worldVars, scanVars, quiescent_seen, n_searches>>

\* ------------------------------------------------------- playlist lookup
\* get_navidrome_playlist_id: getPlaylists (r1), the first playlist with
\* exactly this name, else createPlaylist(name) (r2). A non-ok envelope of
\* getPlaylists has no 'playlists' key and reads as an empty list; any
\* exception gives None. pls maps a name to the contents of the playlists
\* that carry it, in creation order; the id is the name and the position.
get_navidrome_playlist_id(pls, name, r1, r2) ==
    IF r1 = "error" THEN [id |-> NoId, pls |-> pls]
    ELSE LET listed == IF r1 = "ok" THEN pls[name] ELSE <<>>
         IN  IF listed # <<>> THEN [id |-> [name |-> name, k |-> 1],
                                    pls |-> pls]
             ELSE IF r2 = "ok"
                  THEN [id |-> [name |-> name, k |-> Len(pls[name]) + 1],
                        pls |-> [pls EXCEPT ![name] = Append(@, <<>>)]]
                  ELSE [id |-> NoId, pls |-> pls]

\* a sync that treats the library playlist as a download playlist
SyncBranch_AlwaysDownload(playlist_type) == "prepare"

\* sync_playlist, lines 883 and 909: "if playlist_type == 'library'" runs
\* the search-only loop, "else" prepares the playlist directory
SyncBranch(playlist_type) ==
    IF playlist_type = "library" THEN "lib_loop" ELSE "prepare"

\* sync_playlist, lines 876-883: "Failed to get/create playlist" returns
GetPlaylistId ==
    /\ pc = "get_playlist"
    /\ \E r1 \in ReqOutcomes, r2 \in ReqOutcomes :
         LET got == get_navidrome_playlist_id(playlists, PlaylistName(ptype),
                                              r1, r2)
         IN  /\ playlists' = got.pls
             /\ IF got.id = NoId
                THEN SyncReturn
                ELSE /\ playlist_id' = got.id
                     /\ pc' = SyncBranch(ptype)
                     /\ UNCHANGED <<tracks, song_ids, success_count,
                                    track_index, downloaded_tracks,
                                    last_attempt>>
    /\ UNCHANGED <<exit_code, lock_fd, queue, ptype>>
    /\ UNCHANGED <<lock, feed, dirs, files, index, scanning>>
    /\ returned' = IF pc' = "next" THEN "no_playlist" ELSE returned
    /\ last_query' = "none"
    /\ UNCHANGED <<pubVars, matchVars, enrichVars, sleepVars, pollVars>>
    /\ UNCHANGED <<cfgVars, fetchVars, scanVars, quiescent_seen, n_searches>>

\* ------------------------------------------------------- playlist directory
\* cleanup_missing_files: getPlaylists (r), then createPlaylist(playlistId)
\* with no songId, which empties it, for every playlist whose name is a
\* managed name; a request that fails (names in failing) is skipped.
ManagedNow == {PlaylistName(k) : k \in LastfmKeys}
              \cup (IF lb_user THEN {PlaylistName(k) : k \in LBKeys} ELSE {})

cleanup_missing_files(pls, r, failing) ==
    IF r # "ok" THEN pls
    ELSE [n \in DOMAIN pls |->
            IF n \in ManagedNow /\ n \notin failing
            THEN [i \in 1..Len(pls[n]) |-> <<>>]
            ELSE pls[n]]

\* the exception handler of main(): log, sys.exit(1), finally release_lock
Abort ==
    /\ pc' = "exit" /\ exit_code' = ExitStatus("exception")
    /\ lock' = release_lock(lock, lock_fd)
    /\ lock_fd' = None
    /\ tracks' = <<>> /\ playlist_id' = NoId

\* sync_playlist, lines 910-940. An existing directory is emptied (kept: the
\* files whose unlink failed) and, when something was deleted, the managed
\* playlists are cleared; cleanup_missing_files logs its own exceptions and
\* returns. A missing directory is created: mkdir and chmod are outside any
\* try block, so their exception leaves sync_playlist and reaches main().
PrepareDir ==
    /\ pc = "prepare"
    /\ LET d == PlaylistDir(ptype)
           old == {f \in files : f.dir = d}
       IN  IF d \in dirs
           THEN \E kept \in SUBSET old :
                  /\ files' = files \ (old \ kept)
                  /\ \E r \in ReqOutcomes,
                        failing \in {{}} \cup {{n} : n \in ManagedNames} :
                       IF Cardinality(old \ kept) = 0
                       THEN /\ playlists' = playlists
                            /\ pc' = "loop"
                            /\ UNCHANGED <<exit_code, lock, lock_fd, tracks,
                                           playlist_id>>
                       ELSE /\ playlists' =
                                 cleanup_missing_files(playlists, r, failing)
                            /\ pc' = "loop"
                            /\ UNCHANGED <<exit_code, lock, lock_fd, tracks,
                                           playlist_id>>
                  /\ UNCHANGED dirs
           ELSE \E mk \in {"ok", "mkdir_error", "chmod_error"} :
                  /\ dirs' = IF mk = "mkdir_error" THEN dirs
                             ELSE dirs \cup {d}
                  /\ IF mk = "ok"
                     THEN /\ pc' = "loop"
                          /\ UNCHANGED <<exit_code, lock, lock_fd, tracks,
                                         playlist_id>>
                     ELSE Abort
                  /\ UNCHANGED <<files, playlists>>
    /\ UNCHANGED <<song_ids, success_count, track_index, downloaded_tracks>>
    /\ UNCHANGED <<queue, ptype, feed, index, scanning>>
    /\ UNCHANGED <<pubVars, matchVars, enrichVars, sleepVars, pollVars, retVars>>
    /\ UNCHANGED <<cfgVars, fetchVars, scanVars, histVars>>

\* ----------------------------------------------------------- library search
\* The server's full-text search3: a song is a hit when every word of the
\* query "artist title" occurs in its artist or title.
QueryMatches(a, t, s) == {a, t} \subseteq {s.artist, s.title}

\* The responses to search3 for (a, t). The callers read songs[0] only, so
\* an ok response is modelled by its first song (the server's ranking among
\* the hits is its own), or by the empty list when nothing is a hit.
SearchResponses(a, t) ==
    LET hits == {s \in index : QueryMatches(a, t, s)}
    IN  {[kind |-> "error", songs |-> <<>>],
         [kind |-> "failed", songs |-> <<>>]}
        \cup (IF hits = {} THEN {[kind |-> "ok", songs |-> <<>>]}
              ELSE {[kind |-> "ok", songs |-> <<s>>] : s \in hits})

\* search_navidrome_track: songs[0]['id'] of a non-empty result, else None
search_navidrome_track(resp) ==
    IF resp.kind = "error" THEN NoSong
    ELSE IF resp.songs # <<>> THEN resp.songs[1]
    ELSE NoSong

\* ---------------------------------------------------- catalog and download
\* search_ytmusic_track as seen by the loop: None, or the best match's
\* artist and title (here the catalog lists the track under the candidate's
\* own artist and title).
CatalogResults(t) ==
    {NoInfo, [artist |-> t.artist, title |-> t.name, found |-> TRUE]}

\* download_track_ytmusic: the value returned and whether a file was left
\* under the playlist directory. Return code 0 returns True whether or not
\* the mp3 exists (lines 517-522); a non-zero return code, a timeout or an
\* exception returns False whatever was written.
DownloadOutcomes == {[ok |-> TRUE, file |-> TRUE],
                     [ok |-> TRUE, file |-> FALSE],
                     [ok |-> FALSE, file |-> FALSE],
                     [ok |-> FALSE, file |-> TRUE]}

\* a download that leaves its file alone in the directory
FilesAfterDownload_Alone(fs, dl, song) ==
    IF dl.file THEN {f \in fs : f.dir # song.dir} \cup {song} ELSE fs

\* the files after yt-dlp ran with --output output_dir/<artist - title>
\* (lines 491-515): the track's file is there when it was written
FilesAfterDownload(fs, dl, song) ==
    IF dl.file THEN fs \cup {song} ELSE fs

\* ------------------------------------------------------ reconciliation loop
\* a loop condition that lets one more success through than the target
LoopCondition_OneMore == success_count <= ConfigTracks(ptype)
                         /\ track_index < Len(tracks)

\* the while condition of both loops (lines 889 and 942)
LoopCondition == success_count < ConfigTracks(ptype)
                 /\ track_index < Len(tracks)

\* whether the library index holds a song with exactly this artist and title
InLibrary(a, t) == \E s \in index : s.artist = a /\ s.title = t

\* what one pass does, from the three answers it may ask for: the library
\* search (existing), the catalog search (info) and the download (dl)
AttemptOutcome(existing, info, dl) ==
    IF existing # NoSong THEN "present"
    ELSE IF info = NoInfo THEN "not_found"
    ELSE IF dl.ok THEN "acquired"
    ELSE "download_failed"

\* lines 954-961: the catalog is searched unless the library search gave an
\* id ("continue"); lines 963-968: the download runs when the catalog search
\* gave a match
CatalogSearched(existing) == existing = NoSong
DownloadInvoked(existing, info) == existing = NoSong /\ info # NoInfo

\* the seconds slept at the end of a pass of the download loop: "continue"
\* (line 959) after a candidate that is already present goes back to the
\* loop condition without reaching "time.sleep(1)" (line 979)
PauseAfter(outcome) == IF outcome = "present" THEN 0 ELSE 1

\* a count that also goes up when the attempt failed
CountAfter_Every(count, outcome) == count + 1

\* a count that forgets the tracks that were already present
CountAfter_NotPresent(count, outcome) ==
    IF outcome = "acquired" THEN count + 1 ELSE count

\* success_count += 1 (lines 957 and 972)
CountAfter(count, outcome) ==
    IF outcome \in {"present", "acquired"} THEN count + 1 ELSE count

\* sync_playlist, lines 942-979: one pass of the while loop
Attempt ==
    /\ pc = "loop"
    /\ LoopCondition
    /\ LET track == tracks[track_index + 1]
           artist == track.artist
           title == track.name
       IN  \E resp \in SearchResponses(artist, title),
              ytmusic_info \in CatalogResults(track),
              dl \in DownloadOutcomes :
             LET existing_song_id == search_navidrome_track(resp)
                 outcome == AttemptOutcome(existing_song_id, ytmusic_info, dl)
                 downloaded == DownloadInvoked(existing_song_id, ytmusic_info)
             IN  /\ track_index' = track_index + 1
                 /\ song_ids' = IF outcome = "present"
                                THEN Append(song_ids, existing_song_id)
                                ELSE song_ids
                 /\ success_count' = CountAfter(success_count, outcome)
                 /\ downloaded_tracks' =
                      IF outcome = "acquired"
                      THEN Append(downloaded_tracks, ytmusic_info)
                      ELSE downloaded_tracks
                 /\ files' = IF downloaded
                             THEN FilesAfterDownload(files, dl,
                                      Song(PlaylistDir(ptype),
                                           ytmusic_info.artist,
                                           ytmusic_info.title))
                             ELSE files
                 /\ last_attempt' =
                      [outcome |-> outcome,
                       in_library |-> InLibrary(artist, title),
                       id |-> existing_song_id,
                       searched |-> CatalogSearched(existing_song_id),
                       downloaded |-> downloaded]
                 /\ slept' = PauseAfter(outcome)
    /\ UNCHANGED <<pc, tracks, playlist_id>>
    /\ UNCHANGED <<exit_code, lock_fd, queue, ptype>>
    /\ UNCHANGED <<lock, feed, dirs, index, playlists, scanning>>
    /\ UNCHANGED <<pubVars, matchVars, enrichVars, pollVars, retVars>>
    /\ UNCHANGED <<cfgVars, fetchVars, scanVars, quiescent_seen, n_searches>>

\* sync_playlist, lines 981-986: the loop is over; the library-consistency
\* step runs only when something was downloaded
LoopDone ==
    /\ pc = "loop"
    /\ ~LoopCondition
    /\ pc' = IF downloaded_tracks # <<>> THEN "scan_start" ELSE "publish"
    /\ last_attempt' = NoAttempt
    /\ UNCHANGED <<exit_code, lock_fd, queue, ptype>>
    /\ UNCHANGED <<pubVars, matchVars, enrichVars, pollVars, retVars>>
    /\ UNCHANGED <<cfgVars, worldVars, fetchVars, syncVars, scanVars,
                   quiescent_seen, n_searches>>
    /\ slept' = 0

\* sync_playlist, lines 889-907: one pass of the 'library' loop, which only
\* searches the library and has no time.sleep
LibAttempt ==
    /\ pc = "lib_loop"
    /\ LoopCondition
    /\ LET track == tracks[track_index + 1]
           artist == track.artist
           title == track.name
       IN  /\ track_index' = track_index + 1
           /\ slept' = 0
           /\ IF artist = <<>> \/ title = <<>>
              THEN /\ UNCHANGED <<song_ids, success_count>>
                   /\ last_attempt' = [NoAttempt EXCEPT !.outcome = "skipped"]
              ELSE \E resp \in SearchResponses(artist, title) :
                     LET song_id == search_navidrome_track(resp)
                         outcome == AttemptOutcome(song_id, NoInfo, NoInfo)
                     IN  /\ song_ids' = IF outcome = "present"
                                        THEN Append(song_ids, song_id)
                                        ELSE song_ids
                         /\ success_count' = CountAfter(success_count, outcome)
                         /\ last_attempt' =
                              [outcome |-> outcome,
                               in_library |-> InLibrary(artist, title),
                               id |-> song_id,
                               searched |-> FALSE,
                               downloaded |-> FALSE]
    /\ UNCHANGED <<pc, tracks, playlist_id, downloaded_tracks>>
    /\ UNCHANGED <<exit_code, lock_fd, queue, ptype>>
    /\ UNCHANGED <<pubVars, matchVars, enrichVars, pollVars, retVars>>
    /\ UNCHANGED <<cfgVars, worldVars, fetchVars, scanVars, quiescent_seen,
                   n_searches>>

LibLoopDone ==
    /\ pc = "lib_loop"
    /\ ~LoopCondition
    /\ pc' = "publish"
    /\ last_attempt' = NoAttempt
    /\ UNCHANGED <<exit_code, lock_fd, queue, ptype>>
    /\ UNCHANGED <<pubVars, matchVars, enrichVars, pollVars, retVars>>
    /\ UNCHANGED <<cfgVars, worldVars, fetchVars, syncVars, scanVars,
                   quiescent_seen, n_searches>>
    /\ slept' = 0

\* ------------------------------------------------ library-consistency step
\* scan_and_get_songs_from_directory, lines 706-720: startScan for the
\* playlist directory. An exception reaches the outer handler, which returns
\* []; a non-ok envelope is not looked at, so the poll loop starts although
\* the server started nothing.
ScanStart ==
    /\ pc = "scan_start"
    /\ \E r \in ReqOutcomes :
         /\ scanning' = IF r = "ok" THEN PlaylistDir(ptype) ELSE scanning
         /\ pc' = IF r = "error" THEN "publish" ELSE "scan_poll"
    /\ scan_time' = 0
    /\ UNCHANGED <<exit_code, lock_fd, queue, ptype>>
    /\ UNCHANGED <<lock, feed, dirs, files, index, playlists>>
    /\ UNCHANGED <<pubVars, matchVars, enrichVars, sleepVars, retVars>>
    /\ UNCHANGED <<cfgVars, fetchVars, syncVars, scanVars, histVars>>

\* the server finishes the scan of a directory: its index of that directory
\* becomes what is on disk
ServerScanFinish ==
    /\ scanning # None
    /\ index' = {s \in index : s.dir # scanning}
                \cup {f \in files : f.dir = scanning}
    /\ scanning' = None
    /\ UNCHANGED <<lock, feed, dirs, files, playlists>>
    /\ UNCHANGED <<pubVars, matchVars, enrichVars, sleepVars, pollVars, retVars>>
    /\ UNCHANGED <<cfgVars, procVars, fetchVars, syncVars, scanVars,
                   histVars>>

\* what the poll loop reads from a getScanStatus response:
\* scan_status.get('scanning', False), the envelope's status unread
PollSaysScanning(r, server_scanning) == r = "ok" /\ server_scanning

\* the sleep between two polls (line 726)
PollInterval == 2

\* scan_time grows without bound and is read by the progress and warning
\* logs only (scan_time % 20, scan_time % 30, lines 738 and 742), which
\* change nothing else: it is kept modulo the period of the progress log
ScanTimeCycle == 20

\* lines 725-745: one pass of the poll loop (sleep 2, scan_time += 2,
\* getScanStatus). An exception is swallowed and the loop goes on; the loop
\* ends when the value read is not scanning, and scan_time is not read
\* after the loop's last log.
ScanPoll ==
    /\ pc = "scan_poll"
    /\ \E r \in ReqOutcomes :
         /\ pc' = IF r = "error" \/ PollSaysScanning(r, scanning # None)
                  THEN "scan_poll" ELSE "settle"
         /\ scan_time' = IF pc' = "scan_poll"
                         THEN (scan_time + PollInterval) % ScanTimeCycle
                         ELSE 0
         /\ quiescent_seen' = (r = "ok" /\ scanning = None)
    /\ UNCHANGED <<n_searches, last_attempt>>
    /\ UNCHANGED <<exit_code, lock_fd, queue, ptype>>
    /\ UNCHANGED <<pubVars, matchVars, enrichVars, sleepVars, retVars>>
    /\ UNCHANGED <<cfgVars, worldVars, fetchVars, syncVars, scanVars>>

\* lines 747-749: the settling delay min(max(len, 5), 30)
Settle ==
    /\ pc = "settle"
    /\ pc' = "resolve"
    /\ UNCHANGED <<exit_code, lock_fd, queue, ptype>>
    /\ UNCHANGED <<pubVars, matchVars, enrichVars, sleepVars, pollVars, retVars>>
    /\ UNCHANGED <<cfgVars, worldVars, fetchVars, syncVars, scanVars,
                   histVars>>

\* the song id a resolution search yields: songs[0].get('id') of a
\* non-empty result (an exception and an empty result give none)
ResolveId(resp) ==
    IF resp.kind # "error" /\ resp.songs # <<>> THEN resp.songs[1]
    ELSE NoSong

\* lines 755-788: one pass of the first for loop
ResolveFirst ==
    /\ pc = "resolve"
    /\ scan_i < Len(downloaded_tracks)
    /\ LET track_info == downloaded_tracks[scan_i + 1]
           artist == track_info.artist
           title == track_info.title
       IN  /\ scan_i' = scan_i + 1
           /\ IF artist = <<>> \/ title = <<>>
              THEN UNCHANGED <<found_ids, not_found_tracks, n_searches>>
              ELSE \E resp \in SearchResponses(artist, title) :
                     LET song_id == ResolveId(resp)
                     IN  /\ n_searches' = n_searches + 1
                         /\ IF song_id # NoSong
                            THEN /\ found_ids' = Append(found_ids, song_id)
                                 /\ UNCHANGED not_found_tracks
                            ELSE /\ not_found_tracks' =
                                      Append(not_found_tracks, track_info)
                                 /\ UNCHANGED found_ids
    /\ UNCHANGED <<quiescent_seen, last_attempt>>
    /\ UNCHANGED <<pc, exit_code, lock_fd, queue, ptype>>
    /\ UNCHANGED <<pubVars, matchVars, enrichVars, sleepVars, pollVars, retVars>>
    /\ UNCHANGED <<cfgVars, worldVars, fetchVars, syncVars>>

\* the value scan_and_get_songs_from_directory returns is appended to the
\* ids of the tracks that were already present (sync_playlist, line 986)
ScanReturn ==
    /\ song_ids' = song_ids \o found_ids
    /\ pc' = "publish"
    /\ ScanLocalsEnd

\* lines 790-793: the first pass is over; wait min(2 * len, 30) and retry
\* when something was not found, else return
ResolveFirstDone ==
    /\ pc = "resolve"
    /\ scan_i = Len(downloaded_tracks)
    /\ IF not_found_tracks # <<>>
       THEN /\ pc' = "retry" /\ scan_i' = 0
            /\ UNCHANGED <<song_ids, found_ids, not_found_tracks,
                           quiescent_seen, n_searches>>
       ELSE ScanReturn
    /\ UNCHANGED <<tracks, playlist_id, success_count, track_index,
                   downloaded_tracks, last_attempt>>
    /\ UNCHANGED <<exit_code, lock_fd, queue, ptype>>
    /\ UNCHANGED <<pubVars, matchVars, enrichVars, sleepVars, pollVars, retVars>>
    /\ UNCHANGED <<cfgVars, worldVars, fetchVars>>

\* a retry that goes over every downloaded track again
RetryList_All == downloaded_tracks

\* line 795: the retry loop goes over the tracks the first pass did not find
RetryList == not_found_tracks

\* lines 795-822: one pass of the retry loop
Retry ==
    /\ pc = "retry"
    /\ scan_i < Len(RetryList)
    /\ LET track_info == RetryList[scan_i + 1]
           artist == track_info.artist
           title == track_info.title
       IN  /\ scan_i' = scan_i + 1
           /\ IF artist = <<>> \/ title = <<>>
              THEN UNCHANGED <<found_ids, n_searches>>
              ELSE \E resp \in SearchResponses(artist, title) :
                     LET song_id == ResolveId(resp)
                     IN  /\ n_searches' = n_searches + 1
                         /\ found_ids' = IF song_id # NoSong
                                         THEN Append(found_ids, song_id)
                                         ELSE found_ids
    /\ UNCHANGED <<not_found_tracks, quiescent_seen, last_attempt>>
    /\ UNCHANGED <<pc, exit_code, lock_fd, queue, ptype>>
    /\ UNCHANGED <<pubVars, matchVars, enrichVars, sleepVars, pollVars, retVars>>
    /\ UNCHANGED <<cfgVars, worldVars, fetchVars, syncVars>>

\* lines 824-825: return song_ids
RetryDone ==
    /\ pc = "retry"
    /\ scan_i = Len(RetryList)
    /\ ScanReturn
    /\ UNCHANGED <<tracks, playlist_id, success_count, track_index,
                   downloaded_tracks, last_attempt>>
    /\ UNCHANGED <<exit_code, lock_fd, queue, ptype>>
    /\ UNCHANGED <<pubVars, matchVars, enrichVars, sleepVars, pollVars, retVars>>
    /\ UNCHANGED <<cfgVars, worldVars, fetchVars>>

\* ---------------------------------------------------------------- publish
\* a request that carries the ids in reverse order
update_playlist_Reversed(pls, id, ids, r) ==
    IF r = "ok"
    THEN [pls EXCEPT ![id.name] =
            [@ EXCEPT ![id.k] =
               [i \in 1..Len(ids) |-> ids[Len(ids) + 1 - i]]]]
    ELSE pls

\* a server that adds the ids of the request to the playlist
update_playlist_Append(pls, id, ids, r) ==
    IF r = "ok"
    THEN [pls EXCEPT ![id.name] = [@ EXCEPT ![id.k] = @ \o ids]]
    ELSE pls

\* update_playlist: one createPlaylist request for the playlist id, with the
\* song ids when there are some and without songId otherwise. The server
\* replaces the playlist's contents by the ids of the request (none: it
\* empties the playlist) when it accepts the request (r = "ok"); an
\* exception is logged and a non-ok envelope is not looked at.
update_playlist(pls, id, ids, r) ==
    IF r = "ok"
    THEN [pls EXCEPT ![id.name] = [@ EXCEPT ![id.k] = ids]]
    ELSE pls

\* sync_playlist, lines 988-995
Publish ==
    /\ pc = "publish"
    /\ \E r \in ReqOutcomes :
         playlists' = update_playlist(playlists, playlist_id, song_ids, r)
    /\ SyncReturn
    /\ UNCHANGED <<exit_code, lock_fd, queue, ptype>>
    /\ UNCHANGED <<lock, feed, dirs, files, index, scanning>>
    /\ returned' = IF pc' = "next" THEN "published" ELSE returned
    /\ UNCHANGED <<pubVars, matchVars, enrichVars, sleepVars, pollVars, last_query>>
    /\ UNCHANGED <<cfgVars, fetchVars, scanVars, quiescent_seen, n_searches>>

Next ==
    \/ MainStart \/ MainSetup \/ MainNext \/ OtherRun
    \/ SyncConfig \/ FetchLastfmQuery \/ FetchLastfmDone \/ FetchListenbrainz
    \/ GetPlaylistId \/ PrepareDir
    \/ Attempt \/ LoopDone \/ LibAttempt \/ LibLoopDone
    \/ ScanStart \/ ServerScanFinish \/ ScanPoll \/ Settle
    \/ ResolveFirst \/ ResolveFirstDone \/ Retry \/ RetryDone
    \/ Publish

Spec == Init /\ [][Next]_vars

\* the steps of the run itself: everything but the other run and the server
ProgramStep ==
    \/ MainStart \/ MainSetup \/ MainNext
    \/ SyncConfig \/ FetchLastfmQuery \/ FetchLastfmDone \/ FetchListenbrainz
    \/ GetPlaylistId \/ PrepareDir
    \/ Attempt \/ LoopDone \/ LibAttempt \/ LibLoopDone
    \/ ScanStart \/ ScanPoll \/ Settle
    \/ ResolveFirst \/ ResolveFirstDone \/ Retry \/ RetryDone
    \/ Publish

\* SpecLive: the process keeps running. While the run has a step to take it takes one
\* (sleeps and the subprocess timeout of 180 s end, requests return or raise).
\* Nothing is assumed of the server or of the other run.
\* an 'all' run that holds the lock alone, over an empty library, target 0 or 1
InitLive ==
    /\ Init
    /\ argv = "all" /\ num_tracks \in 0..1 /\ lb_user
    /\ lock = {} /\ files = {}

SpecLive == InitLive /\ [][Next]_vars /\ WF_vars(ProgramStep)

\* ------------------------------------------------------------ fetching only
\* One call of sync_playlist up to the return of fetch_tracks_for_playlist,
\* against feeds that serve every entry of AllEntries, for a positive
\* track count.
InitFetch ==
    /\ argv \in PlaylistKeys
    /\ enabled \in EnabledSets
    /\ num_tracks \in 1..MaxT
    /\ lb_user \in BOOLEAN
    /\ pc = "config" /\ exit_code = NoStatus /\ lock_fd = "self"
    /\ queue = <<>> /\ ptype = argv
    /\ lock = {"self"}
    /\ feed = AllEntries
    /\ WorldInit
    /\ LocalsInit
    /\ MatchInit

NextFetch ==
    \/ SyncConfig \/ FetchLastfmQuery \/ FetchLastfmDone \/ FetchListenbrainz

SpecFetch == InitFetch /\ [][NextFetch]_vars

\* fetch_lastfm_tracks against the long station, for targets up to
\* MaxStationTarget
MaxStationTarget == 7

InitStation ==
    /\ argv \in LastfmKeys
    /\ enabled \in EnabledSets
    /\ num_tracks \in 1..MaxStationTarget
    /\ lb_user \in BOOLEAN
    /\ pc = "config" /\ exit_code = NoStatus /\ lock_fd = "self"
    /\ queue = <<>> /\ ptype = argv
    /\ lock = {"self"}
    /\ feed = StationFeed
    /\ WorldInit
    /\ LocalsInit
    /\ MatchInit

NextStation == SyncConfig \/ FetchLastfmQuery \/ FetchLastfmDone

SpecStation == InitStation /\ [][NextStation]_vars

\* ---------------------------------------------------------- publishing twice
\* What two syncs of one playlist do to the media server when both end with
\* the same identifier sequence: get_navidrome_playlist_id, update_playlist,
\* and the same again. queue holds the publishes still to come.
PublishLookup ==
    /\ pc = "lookup"
    /\ \E r1 \in ReqOutcomes, r2 \in ReqOutcomes :
         LET name == PlaylistName(ptype)
             got == get_navidrome_playlist_id(playlists, name, r1, r2)
             created == r1 # "error"
                        /\ (IF r1 = "ok" THEN playlists[name] ELSE <<>>) = <<>>
         IN  /\ playlists' = got.pls
             /\ playlist_id' = got.id
             /\ replies' = replies \o (IF created THEN <<r1, r2>> ELSE <<r1>>)
             /\ pc' = IF got.id = NoId THEN "no_playlist" ELSE "update"
    /\ UNCHANGED <<matchVars, enrichVars, sleepVars, pollVars, retVars>>
    /\ UNCHANGED <<exit_code, lock_fd, queue, ptype>>
    /\ UNCHANGED <<lock, feed, dirs, files, index, scanning>>
    /\ UNCHANGED <<tracks, song_ids, success_count, track_index,
                   downloaded_tracks>>
    /\ UNCHANGED <<cfgVars, fetchVars, scanVars, histVars>>

PublishUpdate ==
    /\ pc = "update"
    /\ \E r \in ReqOutcomes :
         /\ playlists' = update_playlist(playlists, playlist_id, song_ids, r)
         /\ replies' = Append(replies, r)
    /\ IF queue # <<>>
       THEN pc' = "lookup" /\ queue' = Tail(queue)
       ELSE pc' = "published" /\ queue' = queue
    /\ UNCHANGED <<matchVars, enrichVars, sleepVars, pollVars, retVars>>
    /\ UNCHANGED <<exit_code, lock_fd, ptype>>
    /\ UNCHANGED <<lock, feed, dirs, files, index, scanning>>
    /\ UNCHANGED <<tracks, playlist_id, song_ids, success_count, track_index,
                   downloaded_tracks>>
    /\ UNCHANGED <<cfgVars, fetchVars, scanVars, histVars>>

InitPublish ==
    /\ argv \in PlaylistKeys
    /\ enabled = {argv}
    /\ num_tracks = MaxT
    /\ lb_user \in BOOLEAN
    /\ pc = "lookup" /\ exit_code = NoStatus /\ lock_fd = "self"
    /\ queue = <<argv>> /\ ptype = argv
    /\ lock = {"self"}
    /\ feed = SyncFeed
    /\ WorldInit
    /\ all_tracks = <<>> /\ seen_ids = {} /\ attempts = 0
    /\ tracks = <<>> /\ playlist_id = NoId
    /\ song_ids \in SeqsUpTo(index, MaxT)
    /\ success_count = 0 /\ track_index = 0 /\ downloaded_tracks = <<>>
    /\ found_ids = <<>> /\ not_found_tracks = <<>> /\ scan_i = 0
    /\ last_attempt = NoAttempt /\ quiescent_seen = FALSE /\ n_searches = 0
    /\ replies = <<>> /\ scan_time = 0 /\ returned = "none"
    /\ last_query = "none" /\ slept = 0
    /\ MatchInit

NextPublish == PublishLookup \/ PublishUpdate

SpecPublish == InitPublish /\ [][NextPublish]_vars

\* ------------------------------------------------------- catalog matching
\* normalize_for_matching: lower case, drop what is neither a word character
\* nor white space, turn each run of white space into one space, strip.
\* The characters of the input data are letters, "!" and ":" (punctuation)
\* and " ".
Lower(c) == IF c = "A" THEN "a" ELSE IF c = "B" THEN "b" ELSE c
CaseFold(str) == [i \in 1..Len(str) |-> Lower(str[i])]

IsWordOrSpace(c) == c \notin {"!", ":"}

RECURSIVE CollapseSpaces(_)
CollapseSpaces(str) ==
    IF Len(str) < 2 THEN str
    ELSE IF str[1] = " " /\ str[2] = " " THEN CollapseSpaces(Tail(str))
    ELSE <<str[1]>> \o CollapseSpaces(Tail(str))

RECURSIVE StripLeft(_)
StripLeft(str) ==
    IF str # <<>> /\ Head(str) = " " THEN StripLeft(Tail(str)) ELSE str

RECURSIVE StripRight(_)
StripRight(str) ==
    IF str # <<>> /\ str[Len(str)] = " "
    THEN StripRight(SubSeq(str, 1, Len(str) - 1))
    ELSE str

normalize_for_matching(text) ==
    StripRight(StripLeft(CollapseSpaces(
        SelectSeq(CaseFold(text), IsWordOrSpace))))

\* Python's "sub in str" for strings
Contains(sub, str) ==
    \E i \in 0..(Len(str) - Len(sub)) : SubSeq(str, i + 1, i + Len(sub)) = sub

\* artist_match / title_match (lines 385-386)
PartMatch(norm_target, norm_result) ==
    Contains(norm_target, norm_result) \/ Contains(norm_result, norm_target)

\* a part that scores 1 for an exact match too
PartScore_Flat(norm_target, norm_result) ==
    IF PartMatch(norm_target, norm_result) THEN 1 ELSE 0

\* the score of one part (lines 390-393 and 395-398): 2 for equality, 1 for
\* containment
PartScore(norm_target, norm_result) ==
    IF norm_target = norm_result THEN 2
    ELSE IF PartMatch(norm_target, norm_result) THEN 1
    ELSE 0

\* a condition that lets a result through on one matching part
BothMatch_Either(artist_match, title_match) == artist_match \/ title_match

\* "if artist_match and title_match" (line 388)
BothMatch(artist_match, title_match) == artist_match /\ title_match

\* the score of a result for the target (artist, title); a result that is
\* not let through gets no score and is compared with nothing (0 here)
Score(artist, title, result) ==
    LET norm_artist == normalize_for_matching(artist)
        norm_title == normalize_for_matching(title)
        norm_result_artist == normalize_for_matching(result.artist)
        norm_result_title == normalize_for_matching(result.title)
    IN  IF BothMatch(PartMatch(norm_artist, norm_result_artist),
                     PartMatch(norm_title, norm_result_title))
        THEN PartScore(norm_artist, norm_result_artist)
             + PartScore(norm_title, norm_result_title)
        ELSE 0

\* the strings the matcher is run on, and the catalog results considered:
\* a result has its artists' names joined, its title, and a videoId or not
MatchStrings == {<<"a">>, <<"A", "!">>, <<"a", " ", "b">>, <<"b">>, <<"!">>}
CatalogEntries ==
    [artist : MatchStrings, title : MatchStrings, videoId : BOOLEAN]

\* a comparison that lets a later result of equal score replace the best
Improves_OrEqual(score, best) == score >= best

\* line 400: "if score > best_score"
Improves(score, best) == score > best

\* lines 372-405: one pass of the for loop over the results
MatchStep ==
    /\ pc = "match_loop"
    /\ result_i < Len(results)
    /\ LET score == Score(q_artist, q_title, results[result_i + 1])
       IN  /\ result_i' = result_i + 1
           /\ IF Improves(score, best_score)
              THEN best_score' = score /\ best_match' = result_i + 1
              ELSE UNCHANGED <<best_score, best_match>>
    /\ UNCHANGED <<q_artist, q_title, results, match>>
    /\ UNCHANGED <<cfgVars, procVars, worldVars, fetchVars, syncVars,
                   scanVars, histVars, pubVars, pollVars,
                   retVars, enrichVars, sleepVars>>

\* lines 364-365 and 407-468: no results, no match, a score below 2 and a
\* match without videoId return None; else the matched result's title and
\* joined artist names (the target artist when they are empty)
MatchReturn ==
    /\ pc = "match_loop"
    /\ result_i = Len(results)
    /\ match' = IF results = <<>> \/ best_match = 0 \/ best_score < 2
                   \/ ~results[best_match].videoId
                THEN NoInfo
                ELSE LET r == results[best_match]
                     IN  [artist |-> IF r.artist # <<>> THEN r.artist
                                     ELSE q_artist,
                          title |-> r.title, found |-> TRUE]
    /\ pc' = "match_done"
    /\ UNCHANGED <<q_artist, q_title, results, result_i, best_match,
                   best_score>>
    /\ UNCHANGED <<exit_code, lock_fd, queue, ptype>>
    /\ UNCHANGED <<cfgVars, worldVars, fetchVars, syncVars, scanVars,
                   histVars, pubVars, pollVars,
                   retVars, enrichVars, sleepVars>>

\* lines 475-477: the catalog search raises; the handler returns None
MatchSearchError ==
    /\ pc = "match_loop"
    /\ result_i = 0
    /\ match' = NoInfo
    /\ pc' = "match_error"
    /\ UNCHANGED <<q_artist, q_title, results, result_i, best_match,
                   best_score>>
    /\ UNCHANGED <<exit_code, lock_fd, queue, ptype>>
    /\ UNCHANGED <<cfgVars, worldVars, fetchVars, syncVars, scanVars,
                   histVars, pubVars, pollVars,
                   retVars, enrichVars, sleepVars>>

\* one call of search_ytmusic_track for any target and any result list of
\* at most MaxResults results
InitMatch ==
    /\ argv = "recommended" /\ enabled = {"recommended"}
    /\ num_tracks = MaxT /\ lb_user = FALSE
    /\ pc = "match_loop" /\ exit_code = NoStatus /\ lock_fd = "self"
    /\ queue = <<>> /\ ptype = argv
    /\ lock = {"self"}
    /\ feed = SyncFeed
    /\ files = {} /\ index = {} /\ dirs = {} /\ scanning = None
    /\ playlists = [n \in ManagedNames |-> <<>>]
    /\ LocalsInit
    /\ q_artist \in MatchStrings /\ q_title \in MatchStrings
    /\ results \in SeqsUpTo(CatalogEntries, MaxResults)
    /\ result_i = 0 /\ best_match = 0 /\ best_score = 0 /\ match = NoInfo
    /\ EnrichInit

NextMatch == MatchStep \/ MatchReturn \/ MatchSearchError

SpecMatch == InitMatch /\ [][NextMatch]_vars

\* ------------------------------------------------------------- enrichment
\* The tracks of an album listing: track.get('videoId', '') is one of the
\* catalog's ids or no id, track.get('title', '') a string.
VideoIds == {"v1", "v2"}
AlbumTitles == {<<"a">>, <<"A", "!">>, <<"b">>}
AlbumEntries == [videoId : VideoIds \cup {None}, title : AlbumTitles]

\* lines 436-446: the for loop over enumerate(album_tracks, start=1) from
\* idx on. It breaks at the first track that has the id or the normalized
\* title; without such a track, track_number keeps the 1 of line 420.
RECURSIVE LocateTrack(_, _, _, _)
LocateTrack(listing, idx, id, norm_search_title) ==
    IF idx > Len(listing) THEN 1
    ELSE IF listing[idx].videoId = id THEN idx
    ELSE IF normalize_for_matching(listing[idx].title) = norm_search_title
         THEN idx
    ELSE LocateTrack(listing, idx + 1, id, norm_search_title)

\* lines 411-449: the best match has no album id, or get_album raises (the
\* handler of line 448 logs a warning), or it returns the album with a
\* listing of at most MaxAlbum tracks
EnrichAlbum ==
    /\ pc = "enrich"
    /\ \E out \in {"no_album", "error", "ok"} :
         /\ album_lookup' = out
         /\ IF out = "ok"
            THEN \E listing \in SeqsUpTo(AlbumEntries, MaxAlbum) :
                   /\ album_tracks' = listing
                   /\ track_number' =
                        LocateTrack(listing, 1, video_id,
                                    normalize_for_matching(q_title))
            ELSE UNCHANGED <<album_tracks, track_number>>
    /\ pc' = "enrich_return"
    /\ UNCHANGED <<matchVars, video_id>>
    /\ UNCHANGED <<exit_code, lock_fd, queue, ptype>>
    /\ UNCHANGED <<cfgVars, worldVars, fetchVars, syncVars, scanVars,
                   histVars, pubVars, pollVars, retVars, sleepVars>>

\* lines 451-473: the dictionary returned for the best match
EnrichReturn ==
    /\ pc = "enrich_return"
    /\ match' = LET r == results[best_match]
                IN  [artist |-> IF r.artist # <<>> THEN r.artist
                                ELSE q_artist,
                     title |-> r.title, found |-> TRUE]
    /\ pc' = "match_done"
    /\ UNCHANGED <<q_artist, q_title, results, result_i, best_match,
                   best_score>>
    /\ UNCHANGED <<exit_code, lock_fd, queue, ptype>>
    /\ UNCHANGED <<cfgVars, worldVars, fetchVars, syncVars, scanVars,
                   histVars, pubVars, pollVars, retVars, enrichVars,
                   sleepVars>>

\* search_ytmusic_track at line 411: the for loop has chosen a best match
\* for the target, an exact match that has a videoId
InitEnrich ==
    /\ argv = "recommended" /\ enabled = {"recommended"}
    /\ num_tracks = MaxT /\ lb_user = FALSE
    /\ pc = "enrich" /\ exit_code = NoStatus /\ lock_fd = "self"
    /\ queue = <<>> /\ ptype = argv
    /\ lock = {"self"}
    /\ feed = SyncFeed
    /\ files = {} /\ index = {} /\ dirs = {} /\ scanning = None
    /\ playlists = [n \in ManagedNames |-> <<>>]
    /\ LocalsInit
    /\ q_artist = <<"a">> /\ q_title \in MatchStrings
    /\ results = <<[artist |-> q_artist, title |-> q_title,
                    videoId |-> TRUE]>>
    /\ result_i = 1 /\ best_match = 1
    /\ best_score = Score(q_artist, q_title, results[1])
    /\ match = NoInfo
    /\ video_id \in VideoIds
    /\ album_lookup = "none" /\ album_tracks = <<>> /\ track_number = 1

NextEnrich == EnrichAlbum \/ EnrichReturn

SpecEnrich == InitEnrich /\ [][NextEnrich]_vars

\* ====================================================================
\* Properties
\* ====================================================================
target_count == ConfigTracks(ptype)

\* positions of sync_playlist inside the loops, and after them up to the
\* publish request
LoopPcs == {"loop", "lib_loop"}
ScanPcs == {"scan_start", "scan_poll", "settle", "resolve", "retry"}
AfterLoopPcs == ScanPcs \cup {"publish"}

\* a step that is one pass of a reconciliation loop
IsAttempt == pc \in LoopPcs /\ track_index' = track_index + 1

\* C1: when every attempt of the reconciliation loop succeeded (the count
\* of successes equals the number of candidates attempted) and there were at
\* least T candidates, the loop ends with exactly T successes after
\* attempting the first T candidates only; and in general no candidate is
\* attempted once T successes are recorded.
C1_AllSucceed ==
    (pc \in AfterLoopPcs /\ success_count = track_index
        /\ Len(tracks) >= target_count)
    => (success_count = target_count /\ track_index = target_count)

C1_NoAttemptAfterTarget ==
    track_index' > track_index => success_count < target_count

C1_Theorem == []C1_AllSucceed /\ [][C1_NoAttemptAfterTarget]_vars

\* two candidates wanted, three fetched, the first two succeeded (one of
\* them by download) and the third was never attempted
C1_Witness ==
    /\ pc = "scan_start" /\ target_count = 2 /\ Len(tracks) = 3
    /\ success_count = 2 /\ track_index = 2
    /\ downloaded_tracks # <<>>

\* C2: a pass that ends in NotFound or DownloadFailed leaves the success
\* count as it was and the loop goes on with the next candidate in fetch
\* order; the loop runs a pass only while the count is below T and
\* candidates remain, and it is over only when the count equals T or the
\* candidates are exhausted; the count it ends with is the number of
\* succeeding candidates reached, at most T.
C2_CountsSuccessesOnly ==
    pc \in LoopPcs \cup ScanPcs
    => /\ success_count = Len(song_ids) + Len(downloaded_tracks)
       /\ success_count = Min(target_count,
                              Len(song_ids) + Len(downloaded_tracks))

C2_EndsWhenDone ==
    pc \in AfterLoopPcs
    => (success_count = target_count \/ track_index = Len(tracks))

C2_Pass ==
    /\ track_index' # track_index
       => (track_index' = track_index + 1 \/ track_index' = 0)
    /\ IsAttempt
       => /\ success_count < target_count /\ track_index < Len(tracks)
          /\ last_attempt'.outcome \in {"not_found", "download_failed",
                                        "skipped"}
             => success_count' = success_count
          /\ last_attempt'.outcome \in {"present", "acquired"}
             => success_count' = success_count + 1

C2_Theorem ==
    [](C2_CountsSuccessesOnly /\ C2_EndsWhenDone) /\ [][C2_Pass]_vars

\* a failed candidate was passed over and a backup took its place: two
\* wanted, three attempted, two successes
C2_Witness ==
    /\ pc \in AfterLoopPcs /\ target_count = 2
    /\ success_count = 2 /\ track_index = 3

\* C3: the success count never exceeds T, and the identifier sequence
\* handed to update_playlist has at most T entries (fewer when acquired
\* tracks were not resolved after indexing).
C3_Theorem ==
    /\ success_count <= target_count
    /\ pc = "publish" => Len(song_ids) <= target_count

\* two successes, one of them an acquired track that was not resolved
C3_Witness ==
    /\ pc = "publish" /\ target_count = 2 /\ success_count = 2
    /\ Len(song_ids) = 1 /\ Len(downloaded_tracks) = 1


\* C4: a candidate that is in the library when it is attempted is recorded
\* with a library identifier and counted, and neither the catalog search
\* nor the download runs for it.
C4_Statement ==
    [][(pc = "loop" /\ IsAttempt /\ last_attempt'.in_library)
       => /\ last_attempt'.outcome = "present"
          /\ last_attempt'.id # NoSong
          /\ success_count' = success_count + 1
          /\ ~last_attempt'.searched
          /\ ~last_attempt'.downloaded]_vars

\* C5: a resolution search is issued only after a status poll was answered
\* by an idle server, and never while the server is scanning.
C5_Statement ==
    [][n_searches' > n_searches
       => /\ pc \in {"resolve", "retry"}
          /\ quiescent_seen
          /\ scanning = None]_vars

\* the number of tracks of a list that the resolution passes search for
\* (lines 759 and 799 skip a track without artist or title)
Searchable(ts) ==
    Cardinality({i \in DOMAIN ts : ts[i].artist # <<>> /\ ts[i].title # <<>>})

\* C6: the retry pass searches each track the first pass did not find once
\* and there is no third pass; an id found on the retry is part of the
\* sequence returned, nothing is added for a track without a hit, and the
\* step ends at the publish request without an error.
C6_Searches ==
    /\ pc = "resolve" => n_searches = Searchable(SubSeq(downloaded_tracks,
                                                        1, scan_i))
    /\ pc = "retry"
       => /\ scan_i <= Len(not_found_tracks)
          /\ Searchable(not_found_tracks) = Len(not_found_tracks)
          /\ n_searches = Searchable(downloaded_tracks) + scan_i

C6_Pass ==
    /\ pc = "retry" => pc' \in {"retry", "publish"}
    /\ (pc = "retry" /\ scan_i' # scan_i /\ pc' = "retry")
       => /\ scan_i' = scan_i + 1
          /\ not_found_tracks' = not_found_tracks
          /\ LET t == not_found_tracks[scan_i']
                 hits == {h \in index : QueryMatches(t.artist, t.title, h)}
             IN  \/ found_ids' = found_ids
                 \/ \E h \in hits : found_ids' = Append(found_ids, h)
    /\ (pc \in {"resolve", "retry"} /\ pc' = "publish")
       => /\ song_ids' = song_ids \o found_ids
          /\ pc = "retry" => scan_i = Len(not_found_tracks)

C6_Theorem == []C6_Searches /\ [][C6_Pass]_vars

\* the retry pass is over: of two tracks the first pass missed, one was
\* found on the retry and the other on neither pass
C6_Witness ==
    /\ pc = "retry" /\ Len(not_found_tracks) = 2 /\ scan_i = 2
    /\ Len(found_ids) = 1

\* C7: when the media server accepts every request, publishing a sequence
\* to a playlist name, once or twice, leaves one playlist of that name whose
\* content is that sequence; for the empty sequence the playlist is empty.
C7_Theorem ==
    (pc \in {"lookup", "published"} /\ replies # <<>>
        /\ \A i \in DOMAIN replies : replies[i] = "ok")
    => playlists[PlaylistName(ptype)] = <<song_ids>>

\* the empty sequence was published twice and the server accepted the four
\* requests
C7_Witness ==
    /\ pc = "published" /\ song_ids = <<>>
    /\ replies = <<"ok", "ok", "ok", "ok">>

\* C8: at most one run holds the lock, and this run is between MainStart and
\* its exit only while it holds it; a run that finds the lock held ends at
\* once with status 0, and neither that step nor anything after it changes
\* a file, a directory, the index or a playlist.
C8_OneHolder ==
    /\ Cardinality(lock) <= 1
    /\ pc \notin {"main", "exit"} => (lock = {"self"} /\ lock_fd = "self")

C8_Refused ==
    /\ (pc = "main" /\ argv # NoArg /\ lock # {} /\ pc' # pc)
       => /\ pc' = "exit" /\ exit_code' = 0 /\ lock_fd' = None
          /\ UNCHANGED <<lock, feed, dirs, files, index, playlists, scanning>>
    /\ (pc = "exit" /\ ptype = None)
       => /\ pc' = "exit"
          /\ UNCHANGED <<feed, dirs, files, index, playlists, scanning>>

C8_Theorem == []C8_OneHolder /\ [][C8_Refused]_vars

\* this run was refused while the other run holds the lock
C8_Witness ==
    /\ pc = "exit" /\ exit_code = 0 /\ ptype = None /\ argv = "all"
    /\ lock = {"other"} /\ lock_fd = None

\* C9: once fetching has returned candidates (tracks is not empty), no step
\* of sync_playlist ends the process with an error.
C9_Statement ==
    [][tracks # <<>> => ~(pc' = "exit" /\ exit_code' = 1)]_vars

\* C10: the candidate list that fetching returns for target count T has at
\* most 3 * T entries.
C10_Statement ==
    pc = "get_playlist" => Len(tracks) <= backup_multiplier * target_count

\* the identity key of a candidate: its case-folded (artist, title) pair
IdentityKey(t) == <<CaseFold(t.artist), CaseFold(t.name)>>

\* C11: the candidate list that fetching a Last.fm station returns never
\* holds two candidates with the same identity key.
C11_Statement ==
    (pc = "get_playlist" /\ ptype \in LastfmKeys)
    => \A i, j \in DOMAIN tracks :
         i # j => IdentityKey(tracks[i]) # IdentityKey(tracks[j])

\* whether a library song passes the matcher's containment tests for the
\* target (artist, title)
MatchesTarget(artist, title, song) ==
    /\ PartMatch(normalize_for_matching(artist),
                 normalize_for_matching(song.artist))
    /\ PartMatch(normalize_for_matching(title),
                 normalize_for_matching(song.title))

\* C12: the id recorded by the already-present check, and the id recorded
\* by a resolution search, is the id of a song whose normalized artist and
\* title match the target's.
C12_Statement ==
    [][/\ (IsAttempt /\ last_attempt'.outcome = "present")
          => MatchesTarget(tracks[track_index'].artist,
                           tracks[track_index'].name, last_attempt'.id)
       /\ (pc = "resolve" /\ Len(found_ids') > Len(found_ids))
          => MatchesTarget(downloaded_tracks[scan_i'].artist,
                           downloaded_tracks[scan_i'].title,
                           found_ids'[Len(found_ids')])
       /\ (pc = "retry" /\ pc' = "retry" /\ Len(found_ids') > Len(found_ids))
          => MatchesTarget(not_found_tracks[scan_i'].artist,
                           not_found_tracks[scan_i'].title,
                           found_ids'[Len(found_ids')])]_vars

\* whether result k of the catalog passes both containment tests
Eligible(k) ==
    LET na == normalize_for_matching(q_artist)
        nt == normalize_for_matching(q_title)
        ra == normalize_for_matching(results[k].artist)
        rt == normalize_for_matching(results[k].title)
    IN  /\ Contains(na, ra) \/ Contains(ra, na)
        /\ Contains(nt, rt) \/ Contains(rt, nt)

\* C13: a catalog result that fails the artist or the title containment
\* test scores 0, is never the best match and is never returned; the match
\* returned is an eligible result.
C13_Theorem ==
    /\ \A k \in DOMAIN results :
         ~Eligible(k) => /\ Score(q_artist, q_title, results[k]) = 0
                         /\ best_match # k
    /\ best_match # 0 => Eligible(best_match)
    /\ (pc = "match_done" /\ match # NoInfo)
       => /\ best_match # 0 /\ Eligible(best_match)
          /\ match.title = results[best_match].title

\* the first result fails the title test although its artist is the
\* target's, and the second result is returned
C13_Witness ==
    /\ pc = "match_done" /\ Len(results) = 2
    /\ ~Eligible(1) /\ results[1].artist = q_artist /\ results[1].videoId
    /\ best_match = 2 /\ match # NoInfo

\* C14: a result whose artist and title are the target's scores 4, and no
\* result scores more than 4.
C14_Theorem ==
    /\ best_score <= 4
    /\ \A k \in DOMAIN results :
         /\ Score(q_artist, q_title, results[k]) <= 4
         /\ (results[k].artist = q_artist /\ results[k].title = q_title)
            => Score(q_artist, q_title, results[k]) = 4
    /\ (result_i > 0 /\ results[1].artist = q_artist
          /\ results[1].title = q_title) => best_score = 4

\* the target itself was the first result and scored 4
C14_Witness ==
    /\ result_i = 1 /\ results[1].artist = q_artist
    /\ results[1].title = q_title /\ q_artist # q_title
    /\ best_score = 4 /\ best_match = 1

\* whether the published ids can be assigned to candidates that they match,
\* each to a later candidate than the one before
InEncounterOrder ==
    \E f \in [DOMAIN song_ids -> DOMAIN tracks] :
      /\ \A i, j \in DOMAIN song_ids : i < j => f[i] < f[j]
      /\ \A i \in DOMAIN song_ids :
           QueryMatches(tracks[f[i]].artist, tracks[f[i]].name, song_ids[i])

\* C15 as stated: the sequence handed to the publisher lists the successful
\* candidates in the order the candidates were encountered, already present
\* or acquired alike.
C15_Statement == pc = "publish" => InEncounterOrder

\* C15 amended: the sequence is built in order of resolution. Each pass of
\* the loop adds the id of an already-present candidate, or the acquired
\* track, at the end of its list; the resolution passes add each id found at
\* the end of theirs (first pass in download order, then the retry); the
\* resolved ids are put after the already-present ones; and the publisher
\* sends the sequence as it is, duplicates included.
C15_Amended ==
    [][/\ IsAttempt
          => /\ \/ song_ids' = song_ids
                \/ /\ last_attempt'.outcome = "present"
                   /\ song_ids' = Append(song_ids, last_attempt'.id)
             /\ \/ downloaded_tracks' = downloaded_tracks
                \/ /\ last_attempt'.outcome = "acquired"
                   /\ Len(downloaded_tracks') = Len(downloaded_tracks) + 1
                   /\ SubSeq(downloaded_tracks', 1, Len(downloaded_tracks))
                      = downloaded_tracks
                   /\ downloaded_tracks'[Len(downloaded_tracks')].artist
                      = tracks[track_index'].artist
                   /\ downloaded_tracks'[Len(downloaded_tracks')].title
                      = tracks[track_index'].name
       /\ (pc \in {"resolve", "retry"} /\ pc' = pc)
          => /\ \/ found_ids' = found_ids
                \/ /\ Len(found_ids') = Len(found_ids) + 1
                   /\ SubSeq(found_ids', 1, Len(found_ids)) = found_ids
             /\ \/ not_found_tracks' = not_found_tracks
                \/ /\ pc = "resolve"
                   /\ not_found_tracks' = Append(not_found_tracks,
                                                 downloaded_tracks[scan_i'])
       /\ (pc \in {"resolve", "retry"} /\ pc' = "publish")
          => song_ids' = song_ids \o found_ids
       /\ (pc = "publish" /\ pc' # pc)
          => \/ playlists' = playlists
             \/ playlists' =
                  [playlists EXCEPT ![playlist_id.name] =
                     [@ EXCEPT ![playlist_id.k] = song_ids]]]_vars

\* the second candidate was already present and the first was acquired: the
\* sequence to publish has the second candidate's id first
C15_Witness ==
    /\ pc = "publish" /\ tracks = <<TrackB, TrackA>>
    /\ song_ids = <<Song("lib", TrackA.artist, TrackA.name),
                    Song(PlaylistDir(ptype), TrackB.artist, TrackB.name)>>

\* a step deletes no file and creates files under the playlist directory only
C16_OnlyGrows ==
    /\ files \subseteq files'
    /\ \A f \in files' \ files : f.dir = PlaylistDir(ptype)

\* C16: a pass of the acquisition loop deletes no file, and the files it
\* creates are under the playlist directory.
C16_Theorem ==
    [][(pc \in LoopPcs) => C16_OnlyGrows]_vars

\* a download has added a file to a directory that held one already
C16_Witness ==
    /\ pc = "loop" /\ last_attempt.outcome = "acquired"
    /\ Cardinality({f \in files : f.dir = PlaylistDir(ptype)}) = 2

\* the run leaves main()'s lock attempt without a descriptor: status 0, and
\* the process ends there, before NavidroFM() is constructed
C17_Refused ==
    (pc = "main" /\ argv # NoArg /\ pc' # "main" /\ lock_fd' = None)
        => (pc' = "exit" /\ exit_code' = 0)

\* the constructor raised: non-zero status
C17_SetupFailed ==
    (pc = "init" /\ pc' = "exit") => exit_code' # 0

\* every requested playlist was synced: status 0
C17_Completed ==
    (pc = "next" /\ pc' = "exit") => (queue = <<>> /\ exit_code' = 0)

\* C17: a run ends with status 0 when the lock is not acquired and when the
\* syncs complete, with a non-zero status when the setup fails, and the setup
\* runs only in a run that holds the lock.
C17_Theorem ==
    /\ [](pc = "init" => (lock_fd # None /\ "self" \in lock))
    /\ [][C17_Refused /\ C17_SetupFailed /\ C17_Completed]_vars

\* a run that was refused the lock has ended with status 0
C17_Witness ==
    pc = "exit" /\ exit_code = 0 /\ argv # NoArg /\ "other" \in lock
    /\ lock_fd = None /\ playlist_id = NoId /\ n_searches = 0

\* C18: every identifier of the sequence about to be published is the
\* identifier of a file that exists in the library.
C18_Statement ==
    pc = "publish" => \A i \in 1..Len(song_ids) : song_ids[i] \in files

\* a step leaves every managed playlist but the one being synced as it was
C19_OthersKept ==
    \A n \in ManagedNames \ {PlaylistName(ptype)} :
        playlists'[n] = playlists[n]

\* C19: while playlist P is synced, the contents of no other managed
\* playlist change.
C19_Statement ==
    [][(ptype \in PlaylistKeys) => C19_OthersKept]_vars

\* C20: a sync that has started polling the index status reaches
\* publication, whatever the server answers to the polls.
C20_Statement ==
    (pc = "scan_poll") ~> (pc = "publish")

\* the poll loop is left only on a poll that an idle server answered ok
C21_EndsOnQuiescent ==
    (pc = "scan_poll" /\ pc' # "scan_poll") => quiescent_seen'

\* when the poll loop does not go on forever, the sync reaches publication
C21_Reaches ==
    ([]<>(pc # "scan_poll")) => ((pc = "scan_poll") ~> (pc = "publish"))

\* C21: the poll loop ends only when a poll reports the server quiescent
\* (no elapsed time and no failed poll ends it), and if some poll is
\* eventually answered not-scanning the sync reaches publication.
C21_Statement ==
    /\ [][C21_EndsOnQuiescent]_vars
    /\ C21_Reaches

\* the positions of sync_playlist up to the playlist lookup, and after it
EarlyPcs == {"config", "fetch_lastfm", "fetch_lb_id", "get_playlist"}
LatePcs == {"prepare"} \cup LoopPcs \cup AfterLoopPcs

\* a step of the run that stays before the end of the playlist lookup, or
\* returns from there, changes no directory, file, index entry or playlist,
\* triggers no re-index and attempts no candidate
C22_Step ==
    (/\ pc \in EarlyPcs
     /\ pc' \in EarlyPcs \cup {"next"}
     /\ <<procVars, fetchVars, syncVars>>' # <<procVars, fetchVars, syncVars>>)
        => /\ UNCHANGED <<dirs, files, index, playlists, scanning>>
           /\ last_attempt' = NoAttempt
           /\ downloaded_tracks' = <<>>

C23_Released ==
    pc = "exit"
        => /\ "self" \notin lock /\ lock_fd = None
           /\ lock = {} => acquire_lock(lock, "other", TRUE).fd # None

\* C23: on every exit path of a run that acquired the lock (completion,
\* setup failure, error during a sync) the lock is released when the
\* process ends, and a later run can acquire it.
C23_Theorem ==
    /\ []C23_Released
    /\ [][(pc # "exit" /\ pc' = "exit" /\ lock_fd # None)
            => lock' = lock \ {"self"}]_vars

\* a run that acquired the lock has ended on an error during a sync, and
\* the other run has taken the lock since
C23_Witness ==
    /\ pc = "exit" /\ exit_code = 1 /\ ptype # None
    /\ lock = {"other"}

\* the poll loop takes the server for quiescent only on an ok response
C24_Poll ==
    (pc = "scan_poll" /\ pc' = "settle") => quiescent_seen'

\* the step goes on to polling only when the server accepted the trigger
C24_Trigger ==
    (pc = "scan_start" /\ pc' = "scan_poll")
        => scanning' = PlaylistDir(ptype)

\* C24: a media-server response with a non-ok envelope is a failure of its
\* command: it is not read as a quiescent scan status and not as an
\* accepted re-index trigger.
C24_Statement ==
    [][C24_Poll /\ C24_Trigger]_vars

\* the highest score of the result list, 0 for the empty list
MaxScore ==
    LET scores == {0} \cup {Score(q_artist, q_title, results[k]) :
                               k \in DOMAIN results}
    IN  CHOOSE m \in scores : \A n \in scores : n <= m

\* the first result with the highest score, 0 when no result is eligible
FirstBest ==
    IF MaxScore = 0 THEN 0
    ELSE CHOOSE k \in DOMAIN results :
           /\ Score(q_artist, q_title, results[k]) = MaxScore
           /\ \A j \in 1..(k - 1) :
                Score(q_artist, q_title, results[j]) < MaxScore

\* the result picked is the first of the highest-scoring eligible results,
\* and a match that is returned is that result
C25_Picked ==
    pc = "match_done"
        => /\ best_match = FirstBest /\ best_score = MaxScore
           /\ match # NoInfo
                => /\ best_match # 0 /\ Eligible(best_match)
                   /\ match.title = results[best_match].title

\* C25: the match returned is the first of the highest-scoring eligible
\* results; no match is returned when no result reaches score 2, and a
\* match is returned otherwise.
C25_Statement ==
    /\ C25_Picked
    /\ pc = "match_done" => (match = NoInfo <=> MaxScore < 2)

\* C25 as the code has it: the first of the highest-scoring eligible results
\* is picked; no match is returned when no result reaches score 2 or when
\* the result picked carries no video id, and the picked result is returned
\* otherwise.
C25_Amended ==
    /\ C25_Picked
    /\ pc = "match_done"
         => (match = NoInfo
               <=> (MaxScore < 2 \/ ~results[FirstBest].videoId))

\* two different results tie for the highest score and the first is returned
C25_Witness ==
    /\ pc = "match_done" /\ Len(results) = 2 /\ results[1] # results[2]
    /\ results[1].title # results[2].title
    /\ Score(q_artist, q_title, results[1]) = MaxScore
    /\ Score(q_artist, q_title, results[2]) = MaxScore
    /\ MaxScore >= 2
    /\ match # NoInfo /\ match.title = results[1].title

\* a pass of the fetch loop that goes on to another pass ran with fewer
\* than 3 * T candidates and fewer than max_attempts queries, and its query
\* brought a new candidate
C26_Pass ==
    (pc = "fetch_lastfm" /\ pc' = "fetch_lastfm" /\ attempts' # attempts)
        => /\ attempts' = attempts + 1
           /\ attempts < max_attempts
           /\ Len(all_tracks) < backup_multiplier * target_count
           /\ Len(all_tracks') > Len(all_tracks)

\* with 3 * T candidates, or after max_attempts queries, the next step of
\* the fetch returns what was collected
C26_Stop ==
    (/\ pc = "fetch_lastfm"
     /\ \/ Len(all_tracks) >= backup_multiplier * target_count
        \/ attempts >= max_attempts
     /\ pc' # pc)
        => (pc' = "get_playlist" /\ tracks' = all_tracks)

\* C26: fetching from a station issues at most 20 queries, and none once
\* 3 * T deduplicated candidates are collected or after a query that
\* brought nothing new.
C26_Theorem ==
    /\ [](attempts <= max_attempts)
    /\ [][C26_Pass /\ C26_Stop]_vars

\* the fetch ended at the limit of 20 queries, one candidate short of 3 * T
C26_Witness ==
    /\ pc = "get_playlist" /\ num_tracks = MaxStationTarget
    /\ Len(tracks) = max_attempts
    /\ Len(tracks) < backup_multiplier * target_count

\* the station query of this step raised: the fetch ends there without an
\* exit status, and what the earlier queries collected, in order, is what
\* the sync goes on with (nothing collected: the sync returns)
C27_Failed ==
    (pc = "fetch_lastfm" /\ last_query' = "error")
        => /\ exit_code' = exit_code
           /\ IF all_tracks = <<>>
              THEN pc' = "next" /\ returned' = "no_tracks"
              ELSE pc' = "get_playlist" /\ tracks' = all_tracks

\* C27: when a station query fails with a transport error, fetching issues
\* no further query and returns exactly the candidates of the earlier
\* queries, in order, without raising.
C27_Theorem ==
    /\ [](pc = "fetch_lastfm" => last_query \in {"none", "new"})
    /\ [][C27_Failed]_vars

\* a query failed after the earlier queries had collected two candidates
C27_Witness ==
    /\ pc = "get_playlist" /\ last_query = "error"
    /\ tracks = <<TrackB, TrackA>>

\* a lookup creates a playlist only when no playlist has the name
C28_Creates ==
    \A n \in ManagedNames :
        Len(playlists'[n]) > Len(playlists[n]) => playlists[n] = <<>>

\* C28: a playlist is created only when no playlist has that name, so the
\* server, which starts without duplicate names, never holds two playlists
\* of one managed name.
C28_Statement ==
    /\ [](\A n \in ManagedNames : Len(playlists[n]) <= 1)
    /\ [][C28_Creates]_vars

\* the server did not accept the re-index trigger of this step: the step
\* returns without a poll or a search, the sync goes on to publish the ids
\* recorded as already present, and no file is touched
C29_TriggerFailed ==
    (pc = "scan_start" /\ pc' # pc /\ scanning' # PlaylistDir(ptype))
        => /\ pc' = "publish"
           /\ song_ids' = song_ids
           /\ n_searches' = 0
           /\ files' = files

\* C29: when the re-index trigger request fails, the library-consistency
\* step returns the empty sequence without polling or searching; the ids
\* recorded as already present are what is published, and the downloaded
\* files stay on disk.
C29_Statement ==
    [][C29_TriggerFailed]_vars

\* the positions of a sync_playlist call, and those of its download branch
SyncPcs == EarlyPcs \cup LatePcs
DownloadPcs == {"prepare", "loop"} \cup ScanPcs

\* a step of the run inside the sync of the library playlist touches no
\* file, directory or index entry, starts no re-index, searches no catalog,
\* downloads nothing and stays out of the download branch
C30_Step ==
    (/\ ptype = "library"
     /\ pc \in SyncPcs
     /\ <<procVars, fetchVars, syncVars>>' # <<procVars, fetchVars, syncVars>>)
        => /\ files' = files /\ dirs' = dirs
           /\ index' = index /\ scanning' = scanning
           /\ ~last_attempt'.searched /\ ~last_attempt'.downloaded
           /\ downloaded_tracks' = <<>>
           /\ pc' \notin DownloadPcs

\* what the library sync holds for publication: at most the target count
\* of ids, each the first song of a library search for a candidate that the
\* loop has taken from the fetched list
C30_Ids ==
    (ptype = "library" /\ pc \in {"lib_loop", "publish"})
        => /\ Len(song_ids) <= ConfigTracks(ptype)
           /\ \A i \in 1..Len(song_ids) :
                 \E k \in 1..track_index :
                     /\ tracks[k].artist # <<>> /\ tracks[k].name # <<>>
                     /\ QueryMatches(tracks[k].artist, tracks[k].name,
                                     song_ids[i])

\* C30: syncing the library playlist deletes and creates no file, queries
\* no catalog, downloads nothing and triggers no re-index; the ids it
\* publishes are results of library searches for fetched candidates, at
\* most the target count of them.
C30_Theorem ==
    /\ []C30_Ids
    /\ [][C30_Step]_vars

\* the library sync about to publish a full list while the playlist
\* directories hold files
C30_Witness ==
    /\ ptype = "library" /\ pc = "publish"
    /\ song_ids # <<>> /\ Len(song_ids) = ConfigTracks(ptype)
    /\ files # {}

\* the positions of the album listing that have the matched id, and those
\* whose normalized title is the normalized target title
IdPositions ==
    {i \in 1..Len(album_tracks) : album_tracks[i].videoId = video_id}
TitlePositions ==
    {i \in 1..Len(album_tracks) :
        normalize_for_matching(album_tracks[i].title)
            = normalize_for_matching(q_title)}
FirstOf(S) == CHOOSE i \in S : \A j \in S : i <= j

\* C31: the function returns a match whose track number is the position of
\* the listed track that has the matched id, whatever titles match
\* elsewhere; without such a track, the position of the first track whose
\* normalized title is the normalized target title; without that too, and
\* whenever the album lookup fails or there is no album, 1.
C31_Statement ==
    (pc = "match_done" /\ album_lookup # "none")
        => /\ match.found
           /\ IF album_lookup # "ok" THEN track_number = 1
              ELSE IF IdPositions # {} THEN track_number \in IdPositions
              ELSE IF TitlePositions # {}
                   THEN track_number = FirstOf(TitlePositions)
              ELSE track_number = 1

\* a pass of a reconciliation loop that follows an earlier pass of the same
\* loop starts after the earlier pass has slept one second
C32_Paused ==
    (IsAttempt /\ last_attempt.outcome # None) => slept = 1

\* C32: between any two consecutive candidate attempts of the
\* reconciliation loop there is a pause of 1 second, whatever the outcome
\* of the earlier attempt.
C32_Statement ==
    [][C32_Paused]_vars

====
